---- MODULE Spec2Model ----
(***************************************************************************)
(* Model of extras/filament_cutter.py (class FilamentCutter), a Klipper    *)
(* extension.  The handlers run as greenlets of Klipper's cooperative      *)
(* reactor: exactly one greenlet runs at a time and control changes hands  *)
(* only where a greenlet yields (reactor.pause, line 58) or ends.          *)
(*                                                                         *)
(* Greenlet 0 is the G-code dispatch greenlet (the command stream);        *)
(* greenlets 1..MaxArms run the callbacks registered by M600 (line 48).    *)
(* Each greenlet has a call stack of frames; the top frame is last.        *)
(* Extrusion values are millimetres, modelled as integers.                 *)
(***************************************************************************)
EXTENDS Integers, Sequences, FiniteSets, TLC

\* ---- bounds of the model ----
MaxCmds == 3        \* commands read from the G-code stream
MaxArms == 2        \* M600 commands among them
MaxFailures == 1    \* set_pwm calls that raise

\* ---- program constants ----
LeadDistance == 1000       \* line 44
RetractDistance == 20      \* line 69: G1 E-20
AdvanceDistance == 20      \* line 73: G1 E20

\* E values the command stream may carry
Deltas == {-2000, 5, 1000, 2000}

MainG == 0
NoG == -1
CbIds == 1..MaxArms
Greenlets == {MainG} \cup CbIds

\* Python's None / a float, as a sequence of length 0 / 1
None == <<>>
Some(v) == <<v>>

VARIABLES
    net_extrusion,      \* self.net_extrusion (line 11)
    target_extrusion,   \* self.target_extrusion (line 12): None or Some(v)
    cutter_pwm,         \* drive level last written to cutter_pin
    callbacks,          \* callbacks registered with the reactor, not yet run
    stack,              \* stack[g]: call stack of greenlet g
    running,            \* the greenlet that holds control, NoG: the reactor
    failures,           \* set_pwm calls that raised so far
    ncmds,              \* commands read from the stream so far
    arms,               \* M600 commands handled so far
    \* history variables, read by the properties only
    running_sum,        \* sum of the E values of all tracked G1 events
    cutsForArm,         \* cuts triggered by tracking since the last M600
    cbSwaps,            \* swap sequences started from a reactor callback
    lastTrack,          \* the last G1 event handled, None at start
    lastArm,            \* the last M600, None at start: net_extrusion then,
                        \* and whether an M600 came before with no cut since
    lastFailure         \* the last failure of a triggered cut, None at start

vars == <<net_extrusion, target_extrusion, cutter_pwm, callbacks, stack,
          running, failures, ncmds, arms, running_sum, cutsForArm, cbSwaps,
          lastTrack, lastArm, lastFailure>>

\* ---- frames ----
\* fn: the method; pc: the statement it is at; trig: (cut) called from
\* _track_extrusion; t0, arm: (track) target_extrusion and the number of
\* M600 handled when the event arrived; (swap) t0: net_extrusion when the
\* sequence started
Frame(fn, pc, trig, t0, arm) ==
    [fn |-> fn, pc |-> pc, trig |-> trig, t0 |-> t0, arm |-> arm]
TrackFrame(t0, arm) == Frame("track", "reset", TRUE, t0, arm)
CutFrame(trig) == Frame("cut", "activate", trig, None, 0)
SwapFrame == Frame("swap", "retract", FALSE, Some(net_extrusion), 0)

Top(g) == stack[g][Len(stack[g])]
Pop(g) == SubSeq(stack[g], 1, Len(stack[g]) - 1)
SetPc(g, pc) == Pop(g) \o <<[Top(g) EXCEPT !.pc = pc]>>
At(g, fn, pc) == stack[g] # <<>> /\ Top(g).fn = fn /\ Top(g).pc = pc
Runs(g, fn, pc) == running = g /\ At(g, fn, pc)
Idle == running = NoG
\* who holds control once greenlet g is left with stack s
After(g, s) == IF s = <<>> THEN NoG ELSE g

Init ==
    /\ net_extrusion = 0
    /\ target_extrusion = None
    /\ cutter_pwm = 0
    /\ callbacks = 0
    /\ stack = [g \in Greenlets |-> <<>>]
    /\ running = NoG
    /\ failures = 0
    /\ ncmds = 0
    /\ arms = 0
    /\ running_sum = 0
    /\ cutsForArm = 0
    /\ cbSwaps = 0
    /\ lastTrack = None
    /\ lastArm = None
    /\ lastFailure = None

\* ---- float values: line 27 converts the E parameter with float(), which
\* also yields inf, -inf and nan; they are coded by integers that no sum of
\* the finite values of the model reaches ----
PosInf == 1000000
NegInf == -PosInf
NaN == 2000000
NonFinite == {PosInf, NegInf, NaN}

\* a + b of Python floats
FloatAdd(a, b) ==
    IF a = NaN \/ b = NaN THEN NaN
    ELSE IF a \in {PosInf, NegInf} /\ b \in {PosInf, NegInf}
         THEN (IF a = b THEN a ELSE NaN)
    ELSE IF a \in {PosInf, NegInf} THEN a
    ELSE IF b \in {PosInf, NegInf} THEN b
    ELSE a + b

\* a >= b of Python floats: false when either is nan
FloatGE(a, b) == a # NaN /\ b # NaN /\ a >= b

\* ---- _track_extrusion, lines 22-35 ----
\* Python truth value of target_extrusion (line 32): None and 0.0 are false
Truthy(t) == t # None /\ t[1] # 0

\* line 32: self.target_extrusion and self.net_extrusion >= self.target_extrusion
ShouldCut(target, net) == Truthy(target) /\ FloatGE(net, target[1])

\* line 28 with = for +=
AddExtrusionAssign(net, e) == e

\* line 28: self.net_extrusion += extrusion
AddExtrusion(net, e) == FloatAdd(net, e)

\* Lines 26-34 for an event carrying E = e, in greenlet g whose stack is
\* base when the handler is entered; src is "stream" or "script".
\* When the check of line 32 passes, _cut_filament is called (line 34) and
\* the handler waits at line 35 for it to return.
TrackExtrusion(g, e, base, src) ==
    LET net == AddExtrusion(net_extrusion, e)
        fire == ShouldCut(target_extrusion, net)
        s == IF fire
             THEN base \o <<TrackFrame(target_extrusion, arms), CutFrame(TRUE)>>
             ELSE base
    IN  /\ net_extrusion' = net
        /\ stack' = [stack EXCEPT ![g] = s]
        /\ running' = After(g, s)
        /\ running_sum' = running_sum + e
        /\ cutsForArm' = IF fire THEN cutsForArm + 1 ELSE cutsForArm
        /\ lastTrack' = Some([armed |-> target_extrusion, net |-> net,
                              fired |-> fire, src |-> src,
                              pending |-> callbacks, hasE |-> TRUE,
                              e |-> e, seq |-> ncmds])
        /\ UNCHANGED <<target_extrusion, cutter_pwm, callbacks, failures,
                       arms, cbSwaps, lastArm, lastFailure>>

\* line 35, after _cut_filament returned: self.target_extrusion = None
TrackReset(g) ==
    /\ Runs(g, "track", "reset")
    /\ target_extrusion' = None
    /\ stack' = [stack EXCEPT ![g] = Pop(g)]
    /\ running' = After(g, Pop(g))
    /\ UNCHANGED <<net_extrusion, cutter_pwm, callbacks, failures, ncmds,
                   arms, running_sum, cutsForArm, cbSwaps, lastTrack,
                   lastArm, lastFailure>>

\* ---- the G-code stream: one command is read when the dispatch greenlet
\* is not inside a handler and no other greenlet holds control ----
CanDispatch == Idle /\ stack[MainG] = <<>> /\ ncmds < MaxCmds

\* G1 with an E parameter (line 20 -> lines 22-35)
DispatchG1(e) ==
    /\ CanDispatch
    /\ ncmds' = ncmds + 1
    /\ TrackExtrusion(MainG, e, <<>>, "stream")

\* G1 without an E parameter, with line 26 left out: line 27 reads the
\* default 0.0 and the check of line 32 is made
DispatchG1NoE_Default ==
    LET fire == ShouldCut(target_extrusion, net_extrusion)
    IN  /\ Idle /\ stack[MainG] = <<>> /\ ncmds < MaxCmds
        /\ ncmds' = ncmds + 1
        /\ stack' = [stack EXCEPT ![MainG] =
                IF fire
                THEN <<TrackFrame(target_extrusion, arms), CutFrame(TRUE)>>
                ELSE <<>>]
        /\ running' = IF fire THEN MainG ELSE NoG
        /\ cutsForArm' = IF fire THEN cutsForArm + 1 ELSE cutsForArm
        /\ lastTrack' = Some([armed |-> target_extrusion,
                              net |-> net_extrusion, fired |-> fire,
                              src |-> "stream", pending |-> callbacks,
                              hasE |-> FALSE, e |-> 0, seq |-> ncmds])
        /\ UNCHANGED <<net_extrusion, target_extrusion, cutter_pwm,
                       callbacks, failures, arms, running_sum, cbSwaps,
                       lastArm, lastFailure>>

\* G1 without an E parameter: the test of line 26 fails
DispatchG1NoE ==
    /\ CanDispatch
    /\ ncmds' = ncmds + 1
    /\ lastTrack' = Some([armed |-> target_extrusion, net |-> net_extrusion,
                          fired |-> FALSE, src |-> "stream",
                          pending |-> callbacks, hasE |-> FALSE, e |-> 0,
                          seq |-> ncmds])
    /\ UNCHANGED <<net_extrusion, target_extrusion, cutter_pwm, callbacks,
                   stack, running, failures, arms, running_sum, cutsForArm,
                   cbSwaps, lastArm, lastFailure>>

\* line 44 with the offset added
ArmTargetAhead(net) == Some(net + LeadDistance)

\* line 44: self.target_extrusion = self.net_extrusion - 1000
ArmTarget(net) == Some(FloatAdd(net, -LeadDistance))

\* lines 37-48 without line 48
HandleM600_NoCallback ==
    /\ Idle /\ stack[MainG] = <<>> /\ ncmds < MaxCmds
    /\ arms < MaxArms
    /\ ncmds' = ncmds + 1
    /\ arms' = arms + 1
    /\ target_extrusion' = ArmTarget(net_extrusion)
    /\ cutsForArm' = 0
    /\ lastArm' = Some([net |-> net_extrusion,
                        rearm |-> arms > 0 /\ cutsForArm = 0])
    /\ UNCHANGED <<net_extrusion, cutter_pwm, stack, running, failures,
                   running_sum, cbSwaps, lastTrack, lastFailure, callbacks>>

\* M600 (line 15 -> lines 37-48): arm, then register the swap callback
HandleM600 ==
    /\ CanDispatch
    /\ arms < MaxArms
    /\ ncmds' = ncmds + 1
    /\ arms' = arms + 1
    /\ target_extrusion' = ArmTarget(net_extrusion)
    /\ callbacks' = callbacks + 1
    /\ cutsForArm' = 0
    /\ lastArm' = Some([net |-> net_extrusion,
                        rearm |-> arms > 0 /\ cutsForArm = 0])
    /\ UNCHANGED <<net_extrusion, cutter_pwm, stack, running, failures,
                   running_sum, cbSwaps, lastTrack, lastFailure>>

\* CUT_FILAMENT (line 16 -> line 50)
DispatchCut ==
    /\ CanDispatch
    /\ ncmds' = ncmds + 1
    /\ stack' = [stack EXCEPT ![MainG] = <<CutFrame(FALSE)>>]
    /\ running' = MainG
    /\ UNCHANGED <<net_extrusion, target_extrusion, cutter_pwm, callbacks,
                   failures, arms, running_sum, cutsForArm, cbSwaps,
                   lastTrack, lastArm, lastFailure>>

\* SWAP_FILAMENT (line 17 -> line 61)
DispatchSwap ==
    /\ CanDispatch
    /\ ncmds' = ncmds + 1
    /\ stack' = [stack EXCEPT ![MainG] = <<SwapFrame>>]
    /\ running' = MainG
    /\ UNCHANGED <<net_extrusion, target_extrusion, cutter_pwm, callbacks,
                   failures, arms, running_sum, cutsForArm, cbSwaps,
                   lastTrack, lastArm, lastFailure>>

\* ---- the reactor ----
FreeCb == {g \in CbIds : stack[g] = <<>>}
LowestFree == CHOOSE g \in FreeCb : \A h \in FreeCb : g <= h

\* The reactor runs a callback registered at line 48, _swap_filament, in a
\* greenlet of its own
RunCallback ==
    /\ Idle
    /\ callbacks > 0
    /\ FreeCb # {}
    /\ callbacks' = callbacks - 1
    /\ stack' = [stack EXCEPT ![LowestFree] = <<SwapFrame>>]
    /\ running' = LowestFree
    /\ cbSwaps' = cbSwaps + 1
    /\ UNCHANGED <<net_extrusion, target_extrusion, cutter_pwm, failures,
                   ncmds, arms, running_sum, cutsForArm, lastTrack, lastArm,
                   lastFailure>>

\* The timer of reactor.pause(0.5) (line 58) expires: greenlet g resumes
Wake(g) ==
    /\ Idle
    /\ At(g, "cut", "dwell")
    /\ stack' = [stack EXCEPT ![g] = SetPc(g, "deactivate")]
    /\ running' = g
    /\ UNCHANGED <<net_extrusion, target_extrusion, cutter_pwm, callbacks,
                   failures, ncmds, arms, running_sum, cutsForArm, cbSwaps,
                   lastTrack, lastArm, lastFailure>>

\* ---- _cut_filament, lines 50-59 ----
\* set_pwm raises, the exception is caught and the swap is run regardless
Raise_ThenSwap(g, step) ==
    /\ failures < MaxFailures
    /\ failures' = failures + 1
    /\ stack' = [stack EXCEPT ![g] = <<SwapFrame>>]
    /\ running' = g
    /\ lastFailure' =
          IF Top(g).trig
          THEN LET tr == stack[g][Len(stack[g]) - 1]
               IN  Some([before |-> tr.t0, after |-> target_extrusion,
                         arm |-> tr.arm, step |-> step])
          ELSE lastFailure
    /\ UNCHANGED <<net_extrusion, target_extrusion, cutter_pwm, callbacks,
                   ncmds, arms, running_sum, cutsForArm, cbSwaps, lastTrack,
                   lastArm>>

\* set_pwm raises in greenlet g at the given step: the exception leaves
\* every frame of the greenlet (no handler catches it)
Raise(g, step) ==
    /\ failures < MaxFailures
    /\ failures' = failures + 1
    /\ stack' = [stack EXCEPT ![g] = <<>>]
    /\ running' = NoG
    /\ lastFailure' =
          IF Top(g).trig
          THEN LET tr == stack[g][Len(stack[g]) - 1]
               IN  Some([before |-> tr.t0, after |-> target_extrusion,
                         arm |-> tr.arm, step |-> step])
          ELSE lastFailure
    /\ UNCHANGED <<net_extrusion, target_extrusion, cutter_pwm, callbacks,
                   ncmds, arms, running_sum, cutsForArm, cbSwaps, lastTrack,
                   lastArm>>

\* lines 57-58: cutter_pin.set_pwm(1.0); self.reactor.pause(0.5)
CutActivate(g) ==
    /\ Runs(g, "cut", "activate")
    /\ cutter_pwm' = 1
    /\ stack' = [stack EXCEPT ![g] = SetPc(g, "dwell")]
    /\ running' = NoG
    /\ UNCHANGED <<net_extrusion, target_extrusion, callbacks, failures,
                   ncmds, arms, running_sum, cutsForArm, cbSwaps, lastTrack,
                   lastArm, lastFailure>>

\* line 57 raises
CutActivateFail(g) ==
    /\ Runs(g, "cut", "activate")
    /\ Raise(g, "activate")

\* return without line 59
CutDeactivate_NoOff(g) ==
    /\ Runs(g, "cut", "deactivate")
    /\ stack' = [stack EXCEPT ![g] = Pop(g)]
    /\ running' = After(g, Pop(g))
    /\ UNCHANGED <<net_extrusion, target_extrusion, callbacks, failures,
                   ncmds, arms, running_sum, cutsForArm, cbSwaps, lastTrack,
                   lastArm, lastFailure, cutter_pwm>>

\* line 59: cutter_pin.set_pwm(0.0), and return
CutDeactivate(g) ==
    /\ Runs(g, "cut", "deactivate")
    /\ cutter_pwm' = 0
    /\ stack' = [stack EXCEPT ![g] = Pop(g)]
    /\ running' = After(g, Pop(g))
    /\ UNCHANGED <<net_extrusion, target_extrusion, callbacks, failures,
                   ncmds, arms, running_sum, cutsForArm, cbSwaps, lastTrack,
                   lastArm, lastFailure>>

\* line 59 raises
CutDeactivateFail(g) ==
    /\ Runs(g, "cut", "deactivate")
    /\ Raise(g, "deactivate")

\* ---- _swap_filament, lines 61-76: the script of lines 67-75 is run
\* command by command in the calling greenlet; its G1 commands reach
\* _track_extrusion (line 20), G91/G90/G4 have no handler in this class ----
\* line 69 followed at once by line 73, the dwell of line 71 left out
SwapRetract_SkipDwell(g) ==
    /\ Runs(g, "swap", "retract")
    /\ TrackExtrusion(g, -RetractDistance, SetPc(g, "advance"), "script")
    /\ UNCHANGED ncmds

\* line 69: G1 E-20 F6000
SwapRetract(g) ==
    /\ Runs(g, "swap", "retract")
    /\ TrackExtrusion(g, -RetractDistance, SetPc(g, "dwell"), "script")
    /\ UNCHANGED ncmds

\* line 71: G4 P2000
SwapDwell(g) ==
    /\ Runs(g, "swap", "dwell")
    /\ stack' = [stack EXCEPT ![g] = SetPc(g, "advance")]
    /\ UNCHANGED <<net_extrusion, target_extrusion, cutter_pwm, callbacks,
                   running, failures, ncmds, arms, running_sum, cutsForArm,
                   cbSwaps, lastTrack, lastArm, lastFailure>>

\* line 73: G1 E20 F600
SwapAdvance(g) ==
    /\ Runs(g, "swap", "advance")
    /\ TrackExtrusion(g, AdvanceDistance, SetPc(g, "complete"), "script")
    /\ UNCHANGED ncmds

\* line 76: respond_info("Filament swap complete"), and return
SwapComplete(g) ==
    /\ Runs(g, "swap", "complete")
    /\ stack' = [stack EXCEPT ![g] = Pop(g)]
    /\ running' = After(g, Pop(g))
    /\ UNCHANGED <<net_extrusion, target_extrusion, cutter_pwm, callbacks,
                   failures, ncmds, arms, running_sum, cutsForArm, cbSwaps,
                   lastTrack, lastArm, lastFailure>>

Next ==
    \/ \E e \in Deltas : DispatchG1(e)
    \/ DispatchG1NoE
    \/ HandleM600
    \/ DispatchCut
    \/ DispatchSwap
    \/ RunCallback
    \/ \E g \in Greenlets : Wake(g)
    \/ \E g \in Greenlets : TrackReset(g)
    \/ \E g \in Greenlets : CutActivate(g)
    \/ \E g \in Greenlets : CutActivateFail(g)
    \/ \E g \in Greenlets : CutDeactivate(g)
    \/ \E g \in Greenlets : CutDeactivateFail(g)
    \/ \E g \in Greenlets : SwapRetract(g)
    \/ \E g \in Greenlets : SwapDwell(g)
    \/ \E g \in Greenlets : SwapAdvance(g)
    \/ \E g \in Greenlets : SwapComplete(g)

Spec == Init /\ [][Next]_vars

\* The command stream may also carry E values that float() turns into inf,
\* -inf or nan
NextNF ==
    \/ Next
    \/ \E v \in NonFinite : DispatchG1(v)

SpecNF == Init /\ [][NextNF]_vars

\* The reactor keeps running: a greenlet that holds control goes on, an
\* expired pause timer wakes its greenlet, a registered callback is run
FairSpec == Spec /\ WF_vars(Next)

TypeOK ==
    /\ net_extrusion \in Int
    /\ target_extrusion = None \/ target_extrusion[1] \in Int
    /\ cutter_pwm \in {0, 1}
    /\ callbacks \in 0..MaxArms
    /\ running \in Greenlets \cup {NoG}
    /\ \A g \in Greenlets : Len(stack[g]) <= 3

\* ---- properties ----
InDwell(g) == At(g, "cut", "dwell")
SomeDwell == \E g \in Greenlets : InDwell(g)

\* C1: one-shot firing: between one M600 and the next, tracking starts the
\* cut sequence at most once (stated for the runs in which no set_pwm call
\* raises, where the claim already fails)
C1_OneShot == failures = 0 => cutsForArm <= 1

\* C2: fire on first crossing: a tracked event that arrives with a threshold
\* armed (whatever its value) and leaves net_extrusion >= that threshold
\* triggers the cut on that same event
C2_FireOnCrossing ==
    lastTrack # None =>
        LET t == lastTrack[1]
        IN  (t.hasE /\ t.armed # None /\ t.net >= t.armed[1]) => t.fired

\* C3: when a triggered cut has returned to the tracking handler (cutter
\* activated, held, deactivated), the same greenlet goes on to start the swap
\* sequence
C3_SwapAfterCut ==
    [][\A g \in Greenlets :
          Runs(g, "track", "reset") =>
              /\ stack'[g] # <<>>
              /\ stack'[g][Len(stack'[g])].fn = "swap"
              /\ stack'[g][Len(stack'[g])].pc = "retract"]_vars

\* C4: while some cut sequence is in its dwell, no step changes
\* net_extrusion or target_extrusion
C4_DwellAtomic ==
    [][SomeDwell => UNCHANGED <<net_extrusion, target_extrusion>>]_vars

C6_ArmRelative ==
    [][arms' = arms + 1 =>
          /\ target_extrusion' = Some(net_extrusion - LeadDistance)
          /\ net_extrusion' = net_extrusion]_vars

C6_Witness ==
    /\ lastArm # None
    /\ lastArm[1].net = 2000
    /\ net_extrusion = 2000
    /\ target_extrusion = Some(1000)

\* C7: as long as no M600 was handled, net_extrusion is the sum of the E
\* values of the tracked events, target_extrusion is None and no cut was
\* triggered
C7_NoArmNoCut ==
    arms = 0 =>
        /\ net_extrusion = running_sum
        /\ target_extrusion = None
        /\ cutsForArm = 0

C7_Witness ==
    /\ arms = 0
    /\ lastTrack # None
    /\ lastTrack[1].hasE
    /\ lastTrack[1].src = "stream"
    /\ net_extrusion = 2005

\* C8: after an M600 that re-arms (an earlier M600, no cut triggered in
\* between), at most one cut is triggered until the next M600 (stated for
\* the runs in which no set_pwm call raises)
C8_RearmOneCut ==
    (failures = 0 /\ lastArm # None /\ lastArm[1].rearm) => cutsForArm <= 1

\* C9: when set_pwm raises during a triggered cut, target_extrusion is what
\* it was when the triggering event arrived
C9_FailureKeepsTarget ==
    lastFailure # None => lastFailure[1].after = lastFailure[1].before

\* C10: after a triggered cut raised, no cut is triggered again until the
\* next M600
C10_NoRetry ==
    [][(lastFailure # None /\ lastFailure[1].arm = arms /\ arms' = arms)
          => cutsForArm' <= cutsForArm]_vars

\* swap frames anywhere on the stacks
SwapFrames == {<<g, i>> \in Greenlets \X (1..3) :
                  i <= Len(stack[g]) /\ stack[g][i].fn = "swap"}

\* C11: the step in which set_pwm(1.0) raises in a triggered cut ends the
\* greenlet and starts no swap sequence, and a swap sequence is never a
\* callee of the tracking handler or of the cut
C11_NoSwapAfterFailedCut ==
    [][/\ \A g \in Greenlets :
            (Runs(g, "cut", "activate") /\ Top(g).trig
                /\ failures' = failures + 1)
            => (stack'[g] = <<>> /\ SwapFrames' \subseteq SwapFrames
                /\ cbSwaps' = cbSwaps)
       /\ \A p \in SwapFrames' : p[2] = 1]_vars

C11_Witness ==
    /\ lastFailure # None
    /\ lastFailure[1].step = "activate"
    /\ stack[MainG] = <<>>
    /\ running = NoG

\* C12: the step that handles a G1 whose E value is inf, -inf or nan leaves
\* net_extrusion and target_extrusion unchanged and triggers no cut
C12_NonFiniteRejected ==
    [][(/\ lastTrack' # lastTrack
        /\ lastTrack'[1].hasE
        /\ lastTrack'[1].e \in NonFinite)
       => (/\ UNCHANGED <<net_extrusion, target_extrusion>>
           /\ ~lastTrack'[1].fired)]_vars

\* C13: the step that handles a G1 without an E parameter changes nothing
\* of the program's state: totals, threshold, cutter, stacks, failures
C13_NoEIsNoOp ==
    [][(lastTrack' # lastTrack /\ ~lastTrack'[1].hasE)
       => UNCHANGED <<net_extrusion, target_extrusion, cutter_pwm, callbacks,
                      stack, running, failures, cutsForArm, lastFailure>>]_vars

\* a G1 without E was handled with the threshold armed and already met
C13_Witness ==
    /\ lastTrack # None
    /\ ~lastTrack[1].hasE
    /\ lastTrack[1].armed # None
    /\ lastTrack[1].armed[1] # 0
    /\ lastTrack[1].net >= lastTrack[1].armed[1]
    /\ target_extrusion = lastTrack[1].armed

\* C14: no step made by a greenlet that is inside a swap sequence or a cut
\* sequence triggers a cut or changes target_extrusion (the part of the
\* claim that fails whether or not the retract and the advance of a swap are
\* taken to cancel out in net_extrusion)
C14_SequencesPure ==
    [][\A g \in Greenlets :
          (running = g /\ Top(g).fn \in {"swap", "cut"})
          => (/\ UNCHANGED target_extrusion
              /\ cutsForArm' <= cutsForArm)]_vars

\* the steps of a swap sequence, in the order of the script
SwapOrder == {<<"retract", "dwell">>, <<"dwell", "advance">>,
              <<"advance", "complete">>}
InSwap(s) == s # <<>> /\ s[1].fn = "swap"

\* C15: a swap sequence starts at the retract, moves only from the retract
\* (a tracked E of -20) to the dwell, from the dwell to the advance (a
\* tracked E of +20) and from the advance to the completion report, and ends
\* only after that report, unless an exception ends it
C15_SwapOrder ==
    [][\A g \in Greenlets :
          /\ (~InSwap(stack[g]) /\ InSwap(stack'[g]))
                => stack'[g][1].pc = "retract"
          /\ (InSwap(stack[g]) /\ ~InSwap(stack'[g]))
                => (stack[g][1].pc = "complete" \/ failures' = failures + 1)
          /\ (InSwap(stack[g]) /\ InSwap(stack'[g])
                    /\ stack'[g][1].pc # stack[g][1].pc)
                => /\ <<stack[g][1].pc, stack'[g][1].pc>> \in SwapOrder
                   /\ stack[g][1].pc = "retract" =>
                         /\ lastTrack'[1].src = "script"
                         /\ lastTrack'[1].e = -RetractDistance
                   /\ stack[g][1].pc = "advance" =>
                         /\ lastTrack'[1].src = "script"
                         /\ lastTrack'[1].e = AdvanceDistance]_vars

C15_Witness ==
    \E g \in Greenlets :
        /\ At(g, "swap", "complete")
        /\ lastTrack[1].src = "script"
        /\ lastTrack[1].e = AdvanceDistance

\* C16: when a swap sequence has made its advance, net_extrusion is what it
\* was when the sequence started
C16_SwapNetZero ==
    \A g \in Greenlets :
        At(g, "swap", "complete") => net_extrusion = Top(g).t0[1]

\* cut frames anywhere on the stacks
CutFrames == {<<g, i>> \in Greenlets \X (1..3) :
                 i <= Len(stack[g]) /\ stack[g][i].fn = "cut"}

\* C17: as long as no set_pwm call raised, the cutter is off whenever no cut
\* sequence is in progress, and a cutter that is on is eventually off
C17_CutterReleased ==
    /\ []((failures = 0 /\ CutFrames = {}) => cutter_pwm = 0)
    /\ ((cutter_pwm = 1) ~> (cutter_pwm = 0 \/ failures > 0))

\* two cuts were triggered for one M600 (the second one inside the dwell of
\* the first) and every cut sequence has ended
C17_Witness ==
    /\ failures = 0
    /\ cutsForArm = 2
    /\ CutFrames = {}
    /\ cutter_pwm = 0

\* tracking handlers waiting at line 34 for their cut to return
TrackFrames == {<<g, i>> \in Greenlets \X (1..3) :
                   i <= Len(stack[g]) /\ stack[g][i].fn = "track"}

\* C18: while a triggered cut is in progress, target_extrusion is still
\* armed (stated for the runs in which no set_pwm call raises)
C18_ArmedThroughCut ==
    (failures = 0 /\ TrackFrames # {}) => target_extrusion # None
====
